---- MODULE Spec2Model ----
(***************************************************************************)
(* Model of the Sentry API CLI command layer: the headless dispatcher      *)
(* runCommand (src/src/commands/runner.ts), the wrapper functions with the *)
(* module-level SentryUtil reference and the SentryUtil class with its     *)
(* client pool, formatter and 13 API operations (src/unnamed/part_000).    *)
(*                                                                         *)
(* One runCommand invocation is two steps: runCommand runs from entry to   *)
(* its first suspension on the HTTP request (or to the end, when no        *)
(* request is issued), HttpResponse resumes it when the request settles.   *)
(* process.exit terminates the process: nothing runs after it.             *)
(*                                                                         *)
(* Spec is a session of runCommand invocations. MainSpec is one process    *)
(* from main() on, FormatSpec the formatter on a range of payloads, and    *)
(* PoolSpec one SentryUtil under getClient and clearClients calls.         *)
(***************************************************************************)
EXTENDS Integers, Sequences, FiniteSets, TLC

VARIABLES
    pc,          \* "idle" | "http" | "returned" | "exited"
    runs,        \* number of runCommand invocations started in this process
    command,     \* command name of the current invocation
    config,      \* `config` local of runCommand (NoConfig: loadConfig threw)
    args,        \* `args` local of runCommand (NoArgs: not parsed)
    profile,     \* `profile` local of runCommand
    format,      \* `format` local of runCommand
    sentryUtil,  \* module-level `sentryUtil` (NoUtil: null), with its clientPool
    nextHandle,  \* identity of the next AxiosInstance that axios.create builds
    opCalls,     \* API operations invoked by the current invocation, in order
    requests,    \* HTTP requests issued by the current invocation, in order
    result,      \* `result` local of runCommand (NoResult: not assigned)
    stdout,      \* console.log lines of the current invocation
    stderr,      \* console.error lines of the current invocation
    exitCode,    \* status given to process.exit (NoExit: process.exit not called)
    outcome,     \* how the operation's try block ended (NoOutcome: not yet)
    events,      \* console.error / clearClients / process.exit calls, in order
    main,        \* main(): its position, process.argv.slice(2), what it called
    rendering,   \* a payload, a format, and what an operation returns for them
    lookups,     \* the getClient / clearClients calls made on `sentryUtil`, in order
    sessions     \* the client each request of this process was issued on, in order

vars == <<pc, runs, command, config, args, profile, format, sentryUtil,
          nextHandle, opCalls, requests, result, stdout, stderr, exitCode, outcome,
          events, main, rendering, lookups, sessions>>

---------------------------------------------------------------------------
(* Bounds of the model *)

\* runCommand invocations in one process (interactive mode runs several)
MaxRuns == 2

\* keys in one argument bag
MaxBagKeys == 3

\* items of an array payload, members of an object payload
MaxItems == 2

\* getClient and clearClients calls on one SentryUtil
MaxCalls == 4

---------------------------------------------------------------------------
(* JavaScript values of the argument bag *)

Str(s) == [t |-> "string", v |-> s]

Num(n) == [t |-> "number", v |-> ToString(n)]

JsNull == [t |-> "null", v |-> "null"]

JsFalse == [t |-> "boolean", v |-> "false"]

Undefined == [t |-> "undefined", v |-> "undefined"]

\* the falsy values: what `!x` and `x || y` test
Falsy == {Str(""), Num(0), JsNull, JsFalse, Undefined}

Truthy(x) == x \notin Falsy

\* String(x), and `${x}` in a template literal
ToStr(x) == x.v

\* property access args.k: undefined when the key is absent
Get(bag, k) == IF k \in DOMAIN bag THEN bag[k] ELSE Undefined

\* a || b
OrElse(a, b) == IF Truthy(a) THEN a ELSE b

EmptyBag == [k \in {} |-> Undefined]

NoConfig == [none |-> "config"]

NoArgs == [none |-> "args"]

NoUtil == [none |-> "sentryUtil"]

NoResult == [none |-> "result"]

NoExit == -1

NoOutcome == [none |-> "outcome"]

NoBody == [none |-> "body"]

NoError == [none |-> "error"]

NoValue == [t |-> "none", v |-> ""]

NoMain == [none |-> "main"]

NoRendering == [none |-> "rendering"]

---------------------------------------------------------------------------
(* Commands *)

COMMANDS ==
    << "list-project-events", "list-project-issues", "list-org-issues",
       "get-issue", "update-issue", "list-issue-events", "get-event",
       "get-issue-event", "get-tag-details", "list-tag-values",
       "list-issue-hashes", "debug-source-maps", "test-connection" >>

Range(s) == {s[i] : i \in DOMAIN s}

\* the parameters COMMANDS_DETAIL documents as "(required)", per command
DocumentedRequired(cmd) ==
    CASE cmd = "list-project-events" -> {"projectSlug"}
      [] cmd = "list-project-issues" -> {"projectSlug"}
      [] cmd = "list-org-issues"     -> {}
      [] cmd = "get-issue"           -> {"issueId"}
      [] cmd = "update-issue"        -> {"issueId"}
      [] cmd = "list-issue-events"   -> {"issueId"}
      [] cmd = "get-event"           -> {"projectSlug", "eventId"}
      [] cmd = "get-issue-event"     -> {"issueId", "eventId"}
      [] cmd = "get-tag-details"     -> {"issueId", "tagKey"}
      [] cmd = "list-tag-values"     -> {"issueId", "tagKey"}
      [] cmd = "list-issue-hashes"   -> {"issueId"}
      [] cmd = "debug-source-maps"   -> {"projectSlug", "eventId"}
      [] cmd = "test-connection"     -> {}
      [] OTHER                       -> {}

---------------------------------------------------------------------------
(* Configuration: config-loader.js is not among the sources; loadConfig and *)
(* getSentryClientOptions follow the specification's Config resolver.       *)

ProfileNames == {"default", "staging"}

ProfileOptions(name) ==
    [ baseUrl      |-> "https://" \o name \o ".sentry.example/api/0",
      authToken    |-> "token-" \o name,
      organization |-> IF name = "default" THEN "acme" ELSE "globex" ]

\* the configuration object loadConfig returns when it does not throw
loadConfig ==
    [ defaultProfile |-> Str("default"),
      defaultFormat  |-> Str("json"),
      profiles       |-> [n \in ProfileNames |-> ProfileOptions(n)] ]

ConfigErrorMessage == <<"Config file not found">>

\* getSentryClientOptions(config, profileName): the profile's connection
\* options, or a thrown Error when the profile is not configured
getSentryClientOptions(cfg, profileName) ==
    IF ToStr(profileName) \in DOMAIN cfg.profiles
    THEN [ok |-> TRUE, options |-> cfg.profiles[ToStr(profileName)]]
    ELSE [ok |-> FALSE,
          error |-> [kind |-> "error", detail |-> Undefined, value |-> Undefined,
                     message |-> <<"Profile \"", ToStr(profileName), "\" not found">>]]

---------------------------------------------------------------------------
(* runCommand: argument handling *)

Denylist == {"profile", "format", "projectSlug", "issueId", "eventId", "tagKey"}

\* as filterCliParams, with tagKey left out of the destructuring pattern
filterCliParamsKeepsTagKey(params) ==
    [k \in DOMAIN params \ (Denylist \ {"tagKey"}) |-> params[k]]

filterCliParams(params) == [k \in DOMAIN params \ Denylist |-> params[k]]

\* arg && arg.trim() !== '' ? JSON.parse(arg) : {}
ParseArgs(arg) ==
    CASE arg.kind = "null"    -> [ok |-> TRUE, value |-> EmptyBag]
      [] arg.kind = "blank"   -> [ok |-> TRUE, value |-> EmptyBag]
      [] arg.kind = "json"    -> [ok |-> TRUE, value |-> arg.bag]
      [] arg.kind = "invalid" ->
            [ok |-> FALSE,
             error |-> [kind |-> "error", detail |-> Undefined, value |-> Undefined,
                        message |-> <<"Unexpected token o in JSON at position 1">>]]

\* error instanceof Error ? error.message : String(error)
CatchMessage(error) ==
    IF error.kind = "value" THEN <<ToStr(error.value)>> ELSE error.message

---------------------------------------------------------------------------
(* runCommand: the switch *)

\* as SwitchCases, with the last case missing
SwitchCasesWithoutLast ==
    { "list-project-events", "list-project-issues", "list-org-issues",
      "get-issue", "update-issue", "list-issue-events", "get-event",
      "get-issue-event", "get-tag-details", "list-tag-values",
      "list-issue-hashes", "debug-source-maps" }

\* the case labels of the switch
SwitchCases ==
    { "list-project-events", "list-project-issues", "list-org-issues",
      "get-issue", "update-issue", "list-issue-events", "get-event",
      "get-issue-event", "get-tag-details", "list-tag-values",
      "list-issue-hashes", "debug-source-maps", "test-connection" }

\* the fields the `if` of a case tests with `!args.<field>`
CheckedFields(cmd) ==
    CASE cmd = "list-project-events" -> <<"projectSlug">>
      [] cmd = "list-project-issues" -> <<"projectSlug">>
      [] cmd = "list-org-issues"     -> <<>>
      [] cmd = "get-issue"           -> <<"issueId">>
      [] cmd = "update-issue"        -> <<"issueId">>
      [] cmd = "list-issue-events"   -> <<"issueId">>
      [] cmd = "get-event"           -> <<"projectSlug", "eventId">>
      [] cmd = "get-issue-event"     -> <<"issueId", "eventId">>
      [] cmd = "get-tag-details"     -> <<"issueId", "tagKey">>
      [] cmd = "list-tag-values"     -> <<"issueId", "tagKey">>
      [] cmd = "list-issue-hashes"   -> <<"issueId">>
      [] cmd = "debug-source-maps"   -> <<"projectSlug", "eventId">>
      [] cmd = "test-connection"     -> <<>>

\* as FailsCheck, testing the first field of a case only
FailsCheckFirstOnly(cmd, a) ==
    CheckedFields(cmd) # <<>> /\ ~Truthy(Get(a, CheckedFields(cmd)[1]))

\* as FailsCheck, testing that the field is there, not that it is truthy
FailsCheckPresence(cmd, a) ==
    \E i \in DOMAIN CheckedFields(cmd) : CheckedFields(cmd)[i] \notin DOMAIN a

\* !args.a || !args.b
FailsCheck(cmd, a) == \E i \in DOMAIN CheckedFields(cmd) : ~Truthy(Get(a, CheckedFields(cmd)[i]))

\* as RequiredMessage, with every case printing the one-field text for the
\* first field it checks
RequiredMessageSingular(cmd) ==
    <<"ERROR: \"", CheckedFields(cmd)[1], "\" parameter is required">>

\* the text of the console.error of a case, cut at the quoted field names
RequiredMessage(cmd) ==
    CASE cmd = "list-project-events" -> <<"ERROR: \"", "projectSlug", "\" parameter is required">>
      [] cmd = "list-project-issues" -> <<"ERROR: \"", "projectSlug", "\" parameter is required">>
      [] cmd = "get-issue"           -> <<"ERROR: \"", "issueId", "\" parameter is required">>
      [] cmd = "update-issue"        -> <<"ERROR: \"", "issueId", "\" parameter is required">>
      [] cmd = "list-issue-events"   -> <<"ERROR: \"", "issueId", "\" parameter is required">>
      [] cmd = "get-event"           ->
            <<"ERROR: \"", "projectSlug", "\" and \"", "eventId", "\" parameters are required">>
      [] cmd = "get-issue-event"     ->
            <<"ERROR: \"", "issueId", "\" and \"", "eventId", "\" parameters are required">>
      [] cmd = "get-tag-details"     ->
            <<"ERROR: \"", "issueId", "\" and \"", "tagKey", "\" parameters are required">>
      [] cmd = "list-tag-values"     ->
            <<"ERROR: \"", "issueId", "\" and \"", "tagKey", "\" parameters are required">>
      [] cmd = "list-issue-hashes"   -> <<"ERROR: \"", "issueId", "\" parameter is required">>
      [] cmd = "debug-source-maps"   ->
            <<"ERROR: \"", "projectSlug", "\" and \"", "eventId", "\" parameters are required">>

\* as UnknownMessage, without the command name
UnknownMessageWithoutName(cmd) == <<"Unknown command">>

UnknownMessage(cmd) == <<"Unknown command: ", cmd>>

NoParams == [none |-> "params"]

\* the call a case makes: the wrapper function and its arguments
\* (a parameter the function does not take is NoValue / NoParams)
Call(op, p, projectSlug, issueId, eventId, tagKey, params, f) ==
    [ op |-> op, profileName |-> p, projectSlug |-> projectSlug, issueId |-> issueId,
      eventId |-> eventId, tagKey |-> tagKey, params |-> params, format |-> f ]

OperationCall(cmd, a, p, f) ==
    CASE cmd = "list-project-events" ->
            Call("listProjectEvents", p, Get(a, "projectSlug"), NoValue, NoValue, NoValue,
                 filterCliParams(a), f)
      [] cmd = "list-project-issues" ->
            Call("listProjectIssues", p, Get(a, "projectSlug"), NoValue, NoValue, NoValue,
                 filterCliParams(a), f)
      [] cmd = "list-org-issues" ->
            Call("listOrgIssues", p, NoValue, NoValue, NoValue, NoValue,
                 filterCliParams(a), f)
      [] cmd = "get-issue" ->
            Call("getIssue", p, NoValue, Get(a, "issueId"), NoValue, NoValue, NoParams, f)
      [] cmd = "update-issue" ->
            Call("updateIssue", p, NoValue, Get(a, "issueId"), NoValue, NoValue,
                 filterCliParams(a), NoValue)
      [] cmd = "list-issue-events" ->
            Call("listIssueEvents", p, NoValue, Get(a, "issueId"), NoValue, NoValue,
                 filterCliParams(a), f)
      [] cmd = "get-event" ->
            Call("getEvent", p, Get(a, "projectSlug"), NoValue, Get(a, "eventId"), NoValue,
                 NoParams, f)
      [] cmd = "get-issue-event" ->
            Call("getIssueEvent", p, NoValue, Get(a, "issueId"), Get(a, "eventId"), NoValue,
                 NoParams, f)
      [] cmd = "get-tag-details" ->
            Call("getTagDetails", p, NoValue, Get(a, "issueId"), NoValue, Get(a, "tagKey"),
                 filterCliParams(a), f)
      [] cmd = "list-tag-values" ->
            Call("listTagValues", p, NoValue, Get(a, "issueId"), NoValue, Get(a, "tagKey"),
                 filterCliParams(a), f)
      [] cmd = "list-issue-hashes" ->
            Call("listIssueHashes", p, NoValue, Get(a, "issueId"), NoValue, NoValue, NoParams, f)
      [] cmd = "debug-source-maps" ->
            Call("debugSourceMaps", p, Get(a, "projectSlug"), NoValue, Get(a, "eventId"), NoValue,
                 filterCliParams(a), f)
      [] cmd = "test-connection" ->
            Call("testConnection", p, NoValue, NoValue, NoValue, NoValue, NoParams, NoValue)

---------------------------------------------------------------------------
(* Response payloads and the formatter *)

\* a JSON payload: kind k, string s, number n, object keys/values or array items
J(k, s, n, keys, vals) == [k |-> k, s |-> s, n |-> n, keys |-> keys, vals |-> vals]

JNull == J("null", "", 0, <<>>, <<>>)

JUndefined == J("undefined", "", 0, <<>>, <<>>)

JStr(s) == J("string", s, 0, <<>>, <<>>)

JNum(n) == J("number", "", n, <<>>, <<>>)

JBool(b) == J("boolean", IF b THEN "true" ELSE "false", 0, <<>>, <<>>)

JObj(keys, vals) == J("object", "", 0, keys, vals)

JArr(items) == J("array", "", 0, <<>>, items)

\* !data
JFalsy(data) == data \in {JNull, JUndefined, JStr(""), JNum(0), JBool(FALSE)}

\* a string value: `text` is the string, cut into pieces
Text(pieces) == [defined |-> TRUE, text |-> pieces]

\* the value undefined where a string is expected (console.log prints "undefined")
UndefinedText == [defined |-> FALSE, text |-> <<"undefined">>]

RECURSIVE Spaces(_)
Spaces(n) == IF n = 0 THEN "" ELSE " " \o Spaces(n - 1)

RECURSIVE Escape(_)
\* the characters of a string as JSON.stringify writes them between the quotes
Escape(s) ==
    IF s = "" THEN ""
    ELSE LET c == Head(s)
         IN  (CASE c = "\"" -> "\\\""
                [] c = "\\" -> "\\\\"
                [] c = "\n" -> "\\n"
                [] OTHER    -> c)
             \o Escape(Tail(s))

RECURSIVE Stringify(_, _)
RECURSIVE StringifyMembers(_, _, _, _)

\* as StringifyMembers, without the comma between two members
StringifyMembersNoComma(keys, vals, i, indent) ==
    IF i > Len(vals) THEN ""
    ELSE (IF i > 1 THEN "\n" ELSE "")
         \o Spaces(indent)
         \o (IF keys # <<>> THEN "\"" \o Escape(keys[i]) \o "\": " ELSE "")
         \o Stringify(vals[i], indent)
         \o StringifyMembers(keys, vals, i + 1, indent)

\* the members of an object (keys given) or the items of an array, one per line
StringifyMembers(keys, vals, i, indent) ==
    IF i > Len(vals) THEN ""
    ELSE (IF i > 1 THEN ",\n" ELSE "")
         \o Spaces(indent)
         \o (IF keys # <<>> THEN "\"" \o Escape(keys[i]) \o "\": " ELSE "")
         \o Stringify(vals[i], indent)
         \o StringifyMembers(keys, vals, i + 1, indent)

\* JSON.stringify(data, null, 2) below the top level, at the given indentation
Stringify(data, indent) ==
    CASE data.k = "null"      -> "null"
      [] data.k = "undefined" -> "null"
      [] data.k = "string"    -> "\"" \o Escape(data.s) \o "\""
      [] data.k = "number"    -> ToString(data.n)
      [] data.k = "boolean"   -> data.s
      [] data.k = "object"    ->
            IF data.vals = <<>> THEN "{}"
            ELSE "{\n" \o StringifyMembers(data.keys, data.vals, 1, indent + 2)
                 \o "\n" \o Spaces(indent) \o "}"
      [] data.k = "array"     ->
            IF data.vals = <<>> THEN "[]"
            ELSE "[\n" \o StringifyMembers(<<>>, data.vals, 1, indent + 2)
                 \o "\n" \o Spaces(indent) \o "]"

\* JSON.stringify(data, null, 2): undefined for the value undefined
formatAsJson(data) ==
    IF data.k = "undefined" THEN UndefinedText ELSE Text(<<Stringify(data, 0)>>)

RECURSIVE EncodeMembers(_, _, _)
\* the "key: value" lines of an object of scalars
EncodeMembers(keys, vals, i) ==
    IF i > Len(vals) THEN ""
    ELSE (IF i > 1 THEN "\n" ELSE "")
         \o keys[i] \o ": "
         \o (IF vals[i].k = "string" THEN vals[i].s ELSE Stringify(vals[i], 0))
         \o EncodeMembers(keys, vals, i + 1)

\* encode of @toon-format/toon, for scalars, objects of scalars and empty arrays
encode(data) ==
    CASE data.k = "object" -> EncodeMembers(data.keys, data.vals, 1)
      [] data.k = "array"  -> "[" \o ToString(Len(data.vals)) \o "]:"
      [] data.k = "string" -> data.s
      [] OTHER             -> Stringify(data, 0)

\* as formatAsToon, with `data == null` (null or undefined) in place of `!data`
formatAsToonNullish(data) ==
    IF data \in {JNull, JUndefined} THEN Text(<<"">>) ELSE Text(<<encode(data)>>)

\* the arguments of the calls of encode that formatResult(data, f) makes
EncodeCalls(data, f) ==
    IF f = Str("toon") /\ ~JFalsy(data) THEN <<data>> ELSE <<>>

formatAsToon(data) == IF JFalsy(data) THEN Text(<<"">>) ELSE Text(<<encode(data)>>)

formatResult(data, f) ==
    IF f = Str("toon") THEN formatAsToon(data) ELSE formatAsJson(data)

---------------------------------------------------------------------------
(* JSON.parse, on the characters of the text: null, true, false, strings  *)
(* with the escapes Escape writes, integers, arrays and objects           *)

\* the character at position i, "" past the end
Char(s, i) == IF i >= 1 /\ i <= Len(s) THEN SubSeq(s, i, i) ELSE ""

\* the characters from position i to position j, "" when the text ends before
Slice(s, i, j) == IF i >= 1 /\ j <= Len(s) THEN SubSeq(s, i, j) ELSE ""

Digits == <<"0", "1", "2", "3", "4", "5", "6", "7", "8", "9">>

IsDigit(c) == \E d \in DOMAIN Digits : Digits[d] = c

DigitValue(c) == (CHOOSE d \in DOMAIN Digits : Digits[d] = c) - 1

\* SyntaxError
ParseFail == [ok |-> FALSE, value |-> JUndefined, next |-> 0]

Parsed(value, next) == [ok |-> TRUE, value |-> value, next |-> next]

RECURSIVE SkipSpace(_, _)
\* the first position from i on that holds no white space
SkipSpace(s, i) == IF Char(s, i) \in {" ", "\n"} THEN SkipSpace(s, i + 1) ELSE i

RECURSIVE ScanString(_, _, _)
\* a string literal from the character after its opening quote
ScanString(s, i, acc) ==
    LET c == Char(s, i)
    IN  IF c = "" \/ c = "\n" THEN ParseFail
        ELSE IF c = "\"" THEN Parsed(JStr(acc), i + 1)
        ELSE IF c = "\\"
        THEN LET e == Char(s, i + 1)
             IN  IF e = "\"" THEN ScanString(s, i + 2, acc \o "\"")
                 ELSE IF e = "\\" THEN ScanString(s, i + 2, acc \o "\\")
                 ELSE IF e = "n" THEN ScanString(s, i + 2, acc \o "\n")
                 ELSE ParseFail
        ELSE ScanString(s, i + 1, acc \o c)

RECURSIVE ScanDigits(_, _, _)
\* the digits from position i on, n being the value of those before
ScanDigits(s, i, n) ==
    IF IsDigit(Char(s, i)) THEN ScanDigits(s, i + 1, 10 * n + DigitValue(Char(s, i)))
    ELSE Parsed(n, i)

\* an integer literal: no leading zero, an optional minus sign
ParseNumber(s, i) ==
    LET neg == Char(s, i) = "-"
        start == IF neg THEN i + 1 ELSE i
    IN  IF ~IsDigit(Char(s, start)) THEN ParseFail
        ELSE IF Char(s, start) = "0" /\ IsDigit(Char(s, start + 1)) THEN ParseFail
        ELSE LET r == ScanDigits(s, start, 0)
             IN  Parsed(JNum(IF neg THEN 0 - r.value ELSE r.value), r.next)

\* members `keys`/`vals` with the member key |-> value added: a key met twice
\* keeps its place and takes the later value
WithMember(keys, vals, key, value) ==
    IF \E i \in DOMAIN keys : keys[i] = key
    THEN [keys |-> keys,
          vals |-> [i \in DOMAIN vals |-> IF keys[i] = key THEN value ELSE vals[i]]]
    ELSE [keys |-> Append(keys, key), vals |-> Append(vals, value)]

RECURSIVE ParseValue(_, _)
RECURSIVE ParseItems(_, _, _)
RECURSIVE ParseMembers(_, _, _, _)

\* the items of an array from the first item on, `vals` being those before
ParseItems(s, i, vals) ==
    LET v == ParseValue(s, i)
        j == SkipSpace(s, v.next)
    IN  IF ~v.ok THEN ParseFail
        ELSE IF Char(s, j) = ","
        THEN ParseItems(s, SkipSpace(s, j + 1), Append(vals, v.value))
        ELSE IF Char(s, j) = "]" THEN Parsed(JArr(Append(vals, v.value)), j + 1)
        ELSE ParseFail

\* the members of an object from the first key on
ParseMembers(s, i, keys, vals) ==
    IF Char(s, i) # "\"" THEN ParseFail
    ELSE LET key == ScanString(s, i + 1, "")
             colon == SkipSpace(s, key.next)
             v == ParseValue(s, SkipSpace(s, colon + 1))
             j == SkipSpace(s, v.next)
             m == WithMember(keys, vals, key.value.s, v.value)
         IN  IF ~key.ok \/ Char(s, colon) # ":" THEN ParseFail
             ELSE IF ~v.ok THEN ParseFail
             ELSE IF Char(s, j) = ","
             THEN ParseMembers(s, SkipSpace(s, j + 1), m.keys, m.vals)
             ELSE IF Char(s, j) = "}" THEN Parsed(JObj(m.keys, m.vals), j + 1)
             ELSE ParseFail

\* the value that starts at position i
ParseValue(s, i) ==
    LET c == Char(s, i)
    IN  IF c = "n" /\ Slice(s, i, i + 3) = "null" THEN Parsed(JNull, i + 4)
        ELSE IF c = "t" /\ Slice(s, i, i + 3) = "true" THEN Parsed(JBool(TRUE), i + 4)
        ELSE IF c = "f" /\ Slice(s, i, i + 4) = "false" THEN Parsed(JBool(FALSE), i + 5)
        ELSE IF c = "\"" THEN ScanString(s, i + 1, "")
        ELSE IF c = "-" \/ IsDigit(c) THEN ParseNumber(s, i)
        ELSE IF c = "["
        THEN LET j == SkipSpace(s, i + 1)
             IN  IF Char(s, j) = "]" THEN Parsed(JArr(<<>>), j + 1)
                 ELSE ParseItems(s, j, <<>>)
        ELSE IF c = "{"
        THEN LET j == SkipSpace(s, i + 1)
             IN  IF Char(s, j) = "}" THEN Parsed(JObj(<<>>, <<>>), j + 1)
                 ELSE ParseMembers(s, j, <<>>, <<>>)
        ELSE ParseFail

\* JSON.parse(text): the value, or a SyntaxError when the text is not one
\* JSON value with white space around it
JsonParse(text) ==
    LET v == ParseValue(text, SkipSpace(text, 1))
    IN  IF v.ok /\ SkipSpace(text, v.next) > Len(text)
        THEN [ok |-> TRUE, value |-> v.value]
        ELSE [ok |-> FALSE, value |-> JUndefined]

---------------------------------------------------------------------------
(* SentryUtil: the client pool *)

\* new SentryUtil(config)
NewSentryUtil(cfg) == [config |-> cfg, clientPool |-> [p \in {} |-> 0]]

\* as getClient, with the instance built and stored before the profile's
\* options are resolved
getClientStoresFirst(util, profileName, handle) ==
    IF profileName \in DOMAIN util.clientPool
    THEN [ok |-> TRUE, client |-> util.clientPool[profileName], created |-> FALSE,
          clientPool |-> util.clientPool]
    ELSE LET got == getSentryClientOptions(util.config, profileName)
             stored == [p \in DOMAIN util.clientPool \cup {profileName} |->
                           IF p = profileName THEN handle ELSE util.clientPool[p]]
         IN  IF got.ok
             THEN [ok |-> TRUE, client |-> handle, created |-> TRUE, clientPool |-> stored]
             ELSE [ok |-> FALSE, error |-> got.error, created |-> TRUE, clientPool |-> stored]

\* as getClient, without the lookup in the pool: every call builds an instance
getClientWithoutLookup(util, profileName, handle) ==
    LET got == getSentryClientOptions(util.config, profileName) IN
    IF got.ok
    THEN [ok |-> TRUE, client |-> handle, created |-> TRUE,
          clientPool |-> [p \in DOMAIN util.clientPool \cup {profileName} |->
                             IF p = profileName THEN handle ELSE util.clientPool[p]]]
    ELSE [ok |-> FALSE, error |-> got.error, created |-> FALSE,
          clientPool |-> util.clientPool]

\* getClient(profileName) on `util`, `handle` being the instance axios.create
\* would build: the client, whether one was built, and the pool afterwards;
\* or the error getSentryClientOptions throws, with the pool as it was
getClient(util, profileName, handle) ==
    IF profileName \in DOMAIN util.clientPool
    THEN [ok |-> TRUE, client |-> util.clientPool[profileName], created |-> FALSE,
          clientPool |-> util.clientPool]
    ELSE LET got == getSentryClientOptions(util.config, profileName) IN
         IF got.ok
         THEN [ok |-> TRUE, client |-> handle, created |-> TRUE,
               clientPool |-> [p \in DOMAIN util.clientPool \cup {profileName} |->
                                  IF p = profileName THEN handle ELSE util.clientPool[p]]]
         ELSE [ok |-> FALSE, error |-> got.error, created |-> FALSE,
               clientPool |-> util.clientPool]

\* SentryUtil.clearClients()
ClearPool(util) == [util EXCEPT !.clientPool = [p \in {} |-> 0]]

\* as clearClients, without `sentryUtil = null`: the pool is emptied and the
\* reference kept
clearClientsKeepsReference(util) == IF util # NoUtil THEN ClearPool(util) ELSE util

\* clearClients() of the wrapper module: the value of `sentryUtil` afterwards
clearClients(util) == IF util # NoUtil THEN NoUtil ELSE util

\* the handles stored in the pool of `util`
StoredHandles(util) ==
    IF util = NoUtil THEN {} ELSE {util.clientPool[p] : p \in DOMAIN util.clientPool}

---------------------------------------------------------------------------
(* SentryUtil: the 13 operations *)

NoData == [none |-> "data"]

Req(method, url, params, data) ==
    [method |-> method, url |-> url, params |-> params, data |-> data]

\* as Verb, with client.get in updateIssue too
VerbAlwaysGet(op) == "GET"

\* client.get or client.put, by operation
Verb(op) == IF op = "updateIssue" THEN "PUT" ELSE "GET"

\* the one client.get / client.put of an operation
Request(call, options) ==
    LET org == options.organization IN
    CASE call.op = "listProjectEvents" ->
            Req(Verb(call.op), <<"/projects/", org, "/", ToStr(call.projectSlug), "/events/">>,
                call.params, NoData)
      [] call.op = "listProjectIssues" ->
            Req(Verb(call.op), <<"/projects/", org, "/", ToStr(call.projectSlug), "/issues/">>,
                call.params, NoData)
      [] call.op = "listOrgIssues" ->
            Req(Verb(call.op), <<"/organizations/", org, "/issues/">>, call.params, NoData)
      [] call.op = "getIssue" ->
            Req(Verb(call.op), <<"/organizations/", org, "/issues/", ToStr(call.issueId), "/">>,
                NoParams, NoData)
      [] call.op = "updateIssue" ->
            Req(Verb(call.op), <<"/organizations/", org, "/issues/", ToStr(call.issueId), "/">>,
                NoParams, call.params)
      [] call.op = "listIssueEvents" ->
            Req(Verb(call.op), <<"/organizations/", org, "/issues/", ToStr(call.issueId), "/events/">>,
                call.params, NoData)
      [] call.op = "getEvent" ->
            Req(Verb(call.op), <<"/projects/", org, "/", ToStr(call.projectSlug), "/events/",
                         ToStr(call.eventId), "/">>,
                NoParams, NoData)
      [] call.op = "getIssueEvent" ->
            Req(Verb(call.op), <<"/organizations/", org, "/issues/", ToStr(call.issueId), "/events/",
                         ToStr(call.eventId), "/">>,
                NoParams, NoData)
      [] call.op = "getTagDetails" ->
            Req(Verb(call.op), <<"/organizations/", org, "/issues/", ToStr(call.issueId), "/tags/",
                         ToStr(call.tagKey), "/">>,
                call.params, NoData)
      [] call.op = "listTagValues" ->
            Req(Verb(call.op), <<"/organizations/", org, "/issues/", ToStr(call.issueId), "/tags/",
                         ToStr(call.tagKey), "/values/">>,
                call.params, NoData)
      [] call.op = "listIssueHashes" ->
            Req(Verb(call.op), <<"/organizations/", org, "/issues/", ToStr(call.issueId), "/hashes/">>,
                NoParams, NoData)
      [] call.op = "debugSourceMaps" ->
            Req(Verb(call.op), <<"/projects/", org, "/", ToStr(call.projectSlug), "/events/",
                         ToStr(call.eventId), "/source-map-debug/">>,
                call.params, NoData)
      [] call.op = "testConnection" ->
            Req(Verb(call.op), <<"/organizations/", org, "/issues/">>,
                [k \in {"limit"} |-> Num(1)], NoData)

\* a thrown value: an AxiosError (message; detail of the response body, Undefined
\* when there is no response or no detail), another Error, or any other value
Err(kind, message, detail, value) ==
    [kind |-> kind, message |-> message, detail |-> detail, value |-> value]

\* as ErrorMessage, with the operands of || exchanged: error.message || detail
ErrorMessageTransportFirst(error) ==
    CASE error.kind = "axios" ->
            IF error.message # <<>> THEN error.message ELSE <<ToStr(error.detail)>>
      [] error.kind = "error" -> error.message
      [] OTHER -> <<ToStr(error.value)>>

\* axios.isAxiosError(error) ? error.response?.data?.detail || error.message
\*   : error instanceof Error ? error.message : String(error)
ErrorMessage(error) ==
    CASE error.kind = "axios" ->
            IF Truthy(error.detail) THEN <<ToStr(error.detail)>> ELSE error.message
      [] error.kind = "error" -> error.message
      [] OTHER -> <<ToStr(error.value)>>

\* the result the catch block of an operation returns
FailureResult(error) ==
    [success |-> FALSE, error |-> <<"ERROR: ">> \o ErrorMessage(error)]

\* as SuccessResult, with updateIssue rendering the response body like the others
SuccessResultFormatted(call, options, body) ==
    [success |-> TRUE, data |-> body, result |-> formatResult(body, call.format)]

\* the result an operation returns when its request resolves with `body`
\* ("[U+2705]" stands for the check-mark character the two literals begin with)
SuccessResult(call, options, body) ==
    CASE call.op = "updateIssue" ->
            [success |-> TRUE, data |-> body,
             result |-> Text(<<"[U+2705] Issue ", ToStr(call.issueId),
                               " updated successfully!">>)]
      [] call.op = "testConnection" ->
            [success |-> TRUE,
             data |-> JObj(<<"organization", "baseUrl">>,
                           <<JStr(options.organization), JStr(options.baseUrl)>>),
             result |-> Text(<<"[U+2705] Connection successful!\n\nProfile: ",
                               ToStr(call.profileName),
                               "\nOrganization: ", options.organization,
                               "\nBase URL: ", options.baseUrl,
                               "\nStatus: Connected">>)]
      [] OTHER ->
            [success |-> TRUE, data |-> body, result |-> formatResult(body, call.format)]

---------------------------------------------------------------------------
(* Inputs *)

BagKeys == {"profile", "format", "projectSlug", "issueId", "eventId", "tagKey",
            "status", "cursor"}

\* the values a key takes in the argument bags explored
KeyValues(k) ==
    CASE k = "profile"     -> {Str("staging"), Str("ghost")}
      [] k = "format"      -> {Str("toon"), Str("xml")}
      [] k = "projectSlug" -> {Str("my-project"), Str(""), Num(0)}
      [] k = "issueId"     -> {Str("123"), Num(0), JsFalse}
      [] k = "eventId"     -> {Str("abc123"), JsNull, Str("")}
      [] k = "tagKey"      -> {Str("browser"), JsFalse, JsNull}
      [] k = "status"      -> {Str("resolved")}
      [] k = "cursor"      -> {Str("c1")}

AllValues == UNION {KeyValues(k) : k \in BagKeys}

KeySets == {S \in SUBSET BagKeys : Cardinality(S) <= MaxBagKeys}

Bags == UNION {{b \in [S -> AllValues] : \A k \in S : b[k] \in KeyValues(k)} : S \in KeySets}

ArgTexts ==
    {[kind |-> k, bag |-> EmptyBag] : k \in {"null", "blank", "invalid"}}
    \cup {[kind |-> "json", bag |-> b] : b \in Bags}

CommandNames == Range(COMMANDS) \cup {"delete-issue", ""}

IssueBody == JObj(<<"id", "status">>, <<JStr("123"), JStr("unresolved")>>)

Bodies == {IssueBody, JArr(<<>>), JNull, JUndefined, JStr(""), JNum(0)}

HttpErrors ==
    { Err("axios", <<"Request failed with status code 404">>, Str("Issue not found"), Undefined),
      Err("axios", <<"Request failed with status code 500">>, Undefined, Undefined),
      Err("axios", <<"Request failed with status code 400">>, Str(""), Undefined),
      Err("axios", <<"Network Error">>, Undefined, Undefined),
      Err("error", <<"Cannot read properties of undefined">>, Undefined, Undefined),
      Err("value", <<>>, Undefined, Str("aborted")) }

Resolved(body) == [ok |-> TRUE, body |-> body, error |-> NoError]

Rejected(error) == [ok |-> FALSE, body |-> NoBody, error |-> error]

HttpOutcomes == {Resolved(b) : b \in Bodies} \cup {Rejected(e) : e \in HttpErrors}

---------------------------------------------------------------------------
(* The wrapper module: initSentry *)

\* initSentry(): the SentryUtil to use (the stored one, else a new one built
\* from loadConfig), or the Error thrown when loadConfig throws
initSentry(util, initOk) ==
    IF util # NoUtil THEN [ok |-> TRUE, util |-> util]
    ELSE IF initOk THEN [ok |-> TRUE, util |-> NewSentryUtil(loadConfig)]
    ELSE [ok |-> FALSE,
          error |-> Err("error",
                        <<"Failed to initialize Sentry client: ">> \o ConfigErrorMessage,
                        Undefined, Undefined)]

---------------------------------------------------------------------------
(* runCommand, as a function of the invocation's frame: the variables one   *)
(* invocation writes                                                        *)

\* the frame at entry of runCommand
Entry(util, handle) ==
    [ pc |-> "running", sentryUtil |-> util, nextHandle |-> handle, opCalls |-> <<>>,
      requests |-> <<>>, result |-> NoResult, stdout |-> <<>>, stderr |-> <<>>,
      exitCode |-> NoExit, outcome |-> NoOutcome, events |-> <<>> ]

\* console.error(line); process.exit(1)
ExitWith(f, line) ==
    [f EXCEPT !.stderr = Append(@, line), !.exitCode = 1, !.pc = "exited",
              !.events = @ \o <<"console.error", "process.exit">>]

\* as CatchBlock, with process.exit(1) before clearClients()
CatchBlockExitFirst(f, error) ==
    [f EXCEPT !.stderr = Append(@, <<"Error executing command:">> \o CatchMessage(error)),
              !.exitCode = 1, !.pc = "exited",
              !.events = @ \o <<"console.error", "process.exit">>]

\* the catch block of runCommand
CatchBlock(f, error) ==
    [f EXCEPT !.stderr = Append(@, <<"Error executing command:">> \o CatchMessage(error)),
              !.sentryUtil = clearClients(@), !.exitCode = 1, !.pc = "exited",
              !.events = @ \o <<"console.error", "clearClients", "process.exit">>]

\* as Display, without the process.exit(1) of the failure branch
DisplayWithoutExit(f, res) ==
    IF res.success
    THEN [f EXCEPT !.result = res, !.stdout = Append(@, res.result.text),
                   !.sentryUtil = clearClients(@), !.pc = "returned",
                   !.events = @ \o <<"console.log", "clearClients">>]
    ELSE [f EXCEPT !.result = res, !.stderr = Append(@, res.error),
                   !.sentryUtil = clearClients(@), !.pc = "returned",
                   !.events = @ \o <<"console.error", "clearClients">>]

\* "Display result" and "Clear clients", the end of the try block
Display(f, res) ==
    IF res.success
    THEN [f EXCEPT !.result = res, !.stdout = Append(@, res.result.text),
                   !.sentryUtil = clearClients(@), !.pc = "returned",
                   !.events = @ \o <<"console.log", "clearClients">>]
    ELSE [ExitWith(f, res.error) EXCEPT !.result = res]

\* client.get / client.put: the request leaves, the operation awaits it
Issue(f, req) == [f EXCEPT !.requests = Append(@, req), !.pc = "http"]

\* as Operation, with getClient called outside the method's try block: what it
\* throws reaches the catch block of runCommand
OperationClientOutsideTry(f, call, initOk) ==
    LET f1 == [f EXCEPT !.opCalls = Append(@, call)]
        init == initSentry(f.sentryUtil, initOk)
    IN  IF ~init.ok THEN CatchBlock(f1, init.error)
        ELSE
        LET got == getClient(init.util, call.profileName, f.nextHandle)
            f2 == [f1 EXCEPT !.sentryUtil = [init.util EXCEPT !.clientPool = got.clientPool],
                             !.nextHandle = IF got.created THEN @ + 1 ELSE @]
            opts == getSentryClientOptions(init.util.config, call.profileName)
        IN  IF ~got.ok THEN CatchBlock(f2, got.error)
            ELSE IF ~opts.ok THEN CatchBlock(f2, opts.error)
            ELSE Issue(f2, Request(call, opts.options))

\* a wrapper function and the SentryUtil method it calls, up to the await of
\* the request; a throw inside the method's try block ends in its catch block
Operation(f, call, initOk) ==
    LET f1 == [f EXCEPT !.opCalls = Append(@, call)]
        init == initSentry(f.sentryUtil, initOk)
    IN  IF ~init.ok THEN CatchBlock(f1, init.error)
        ELSE
        LET got == getClient(init.util, call.profileName, f.nextHandle)
            f2 == [f1 EXCEPT !.sentryUtil = [init.util EXCEPT !.clientPool = got.clientPool],
                             !.nextHandle = IF got.created THEN @ + 1 ELSE @]
            opts == getSentryClientOptions(init.util.config, call.profileName)
        IN  IF ~got.ok
            THEN Display([f2 EXCEPT !.outcome = Rejected(got.error)], FailureResult(got.error))
            ELSE IF ~opts.ok
            THEN Display([f2 EXCEPT !.outcome = Rejected(opts.error)], FailureResult(opts.error))
            ELSE Issue(f2, Request(call, opts.options))

\* the switch of runCommand
Switch(f, cmd, a, p, fmt, initOk) ==
    IF cmd \notin SwitchCases THEN ExitWith(f, UnknownMessage(cmd))
    ELSE IF FailsCheck(cmd, a) THEN ExitWith(f, RequiredMessage(cmd))
    ELSE Operation(f, OperationCall(cmd, a, p, fmt), initOk)

\* as Settle, with the request issued once more after a first failure
SettleWithRetry(f, o) ==
    IF ~o.ok /\ Len(f.requests) < 2
    THEN [f EXCEPT !.requests = Append(@, @[1])]
    ELSE LET call == f.opCalls[Len(f.opCalls)]
             opts == getSentryClientOptions(f.sentryUtil.config, call.profileName)
             g == [f EXCEPT !.outcome = o]
         IN  IF o.ok THEN Display(g, SuccessResult(call, opts.options, o.body))
             ELSE Display(g, FailureResult(o.error))

\* the rest of the method and of runCommand once the request has settled
Settle(f, o) ==
    LET call == f.opCalls[Len(f.opCalls)]
        opts == getSentryClientOptions(f.sentryUtil.config, call.profileName)
        g == [f EXCEPT !.outcome = o]
    IN  IF o.ok THEN Display(g, SuccessResult(call, opts.options, o.body))
        ELSE Display(g, FailureResult(o.error))

---------------------------------------------------------------------------
(* Actions *)

Frame ==
    [ pc |-> pc, sentryUtil |-> sentryUtil, nextHandle |-> nextHandle, opCalls |-> opCalls,
      requests |-> requests, result |-> result, stdout |-> stdout, stderr |-> stderr,
      exitCode |-> exitCode, outcome |-> outcome, events |-> events ]

Become(f) ==
    /\ pc' = f.pc
    /\ sentryUtil' = f.sentryUtil
    /\ nextHandle' = f.nextHandle
    /\ opCalls' = f.opCalls
    /\ requests' = f.requests
    /\ result' = f.result
    /\ stdout' = f.stdout
    /\ stderr' = f.stderr
    /\ exitCode' = f.exitCode
    /\ outcome' = f.outcome
    /\ events' = f.events

\* no runCommand invocation has started
NoInvocation ==
    /\ pc = "idle"
    /\ runs = 0
    /\ command = ""
    /\ config = NoConfig
    /\ args = NoArgs
    /\ profile = NoValue
    /\ format = NoValue
    /\ sentryUtil = NoUtil
    /\ nextHandle = 1
    /\ opCalls = <<>>
    /\ requests = <<>>
    /\ result = NoResult
    /\ stdout = <<>>
    /\ stderr = <<>>
    /\ exitCode = NoExit
    /\ outcome = NoOutcome
    /\ events = <<>>
    /\ sessions = <<>>

Init ==
    /\ NoInvocation
    /\ main = NoMain
    /\ rendering = NoRendering
    /\ lookups = <<>>

\* a request was issued for `profileName` on the instance `client`
Session(profileName, client) == [profile |-> profileName, client |-> client]

\* as runCommand, with the command name looked at before the configuration is
\* loaded and the argument text parsed
runCommandSwitchFirst(cmd, arg, cfgOk, initOk) ==
    /\ runs' = runs + 1
    /\ command' = cmd
    /\ LET f == Entry(sentryUtil, nextHandle)
           parsed == ParseArgs(arg)
       IN  IF cmd \notin SwitchCases
           THEN /\ config' = NoConfig
                /\ args' = NoArgs
                /\ profile' = NoValue
                /\ format' = NoValue
                /\ Become(ExitWith(f, UnknownMessage(cmd)))
           ELSE IF ~cfgOk
           THEN /\ config' = NoConfig
                /\ args' = NoArgs
                /\ profile' = NoValue
                /\ format' = NoValue
                /\ Become(CatchBlock(f, Err("error", ConfigErrorMessage, Undefined, Undefined)))
           ELSE IF ~parsed.ok
           THEN /\ config' = loadConfig
                /\ args' = NoArgs
                /\ profile' = NoValue
                /\ format' = NoValue
                /\ Become(CatchBlock(f, parsed.error))
           ELSE LET a == parsed.value
                    p == OrElse(Get(a, "profile"), loadConfig.defaultProfile)
                    fmt == OrElse(Get(a, "format"), loadConfig.defaultFormat)
                IN  /\ config' = loadConfig
                    /\ args' = a
                    /\ profile' = p
                    /\ format' = fmt
                    /\ Become(Switch(f, cmd, a, p, fmt, initOk))
    /\ sessions' = IF pc' = "http"
                   THEN Append(sessions, Session(profile', sentryUtil'.clientPool[profile']))
                   ELSE sessions

\* runCommand(cmd, arg) from its entry to the await of the HTTP request, or to
\* its end when it issues none. cfgOk: loadConfig of runCommand returns;
\* initOk: loadConfig of initSentry returns
runCommand(cmd, arg, cfgOk, initOk) ==
    /\ runs' = runs + 1
    /\ command' = cmd
    /\ LET f == Entry(sentryUtil, nextHandle)
           parsed == ParseArgs(arg)
       IN  IF ~cfgOk
           THEN /\ config' = NoConfig
                /\ args' = NoArgs
                /\ profile' = NoValue
                /\ format' = NoValue
                /\ Become(CatchBlock(f, Err("error", ConfigErrorMessage, Undefined, Undefined)))
           ELSE IF ~parsed.ok
           THEN /\ config' = loadConfig
                /\ args' = NoArgs
                /\ profile' = NoValue
                /\ format' = NoValue
                /\ Become(CatchBlock(f, parsed.error))
           ELSE LET a == parsed.value
                    p == OrElse(Get(a, "profile"), loadConfig.defaultProfile)
                    fmt == OrElse(Get(a, "format"), loadConfig.defaultFormat)
                IN  /\ config' = loadConfig
                    /\ args' = a
                    /\ profile' = p
                    /\ format' = fmt
                    /\ Become(Switch(f, cmd, a, p, fmt, initOk))
    /\ sessions' = IF pc' = "http"
                   THEN Append(sessions, Session(profile', sentryUtil'.clientPool[profile']))
                   ELSE sessions

\* the HTTP request settles and the invocation runs to its end
HttpResponse(o) ==
    /\ Become(Settle(Frame, o))
    /\ UNCHANGED <<runs, command, config, args, profile, format, sessions>>

\* runCommand has returned: its locals are gone, the caller may run the next
\* command (interactive mode); what the module keeps is `sentryUtil`
Return ==
    /\ pc = "returned"
    /\ command' = ""
    /\ config' = NoConfig
    /\ args' = NoArgs
    /\ profile' = NoValue
    /\ format' = NoValue
    /\ Become([Entry(sentryUtil, nextHandle) EXCEPT !.pc = "idle"])
    /\ UNCHANGED <<runs, sessions>>

\* a command is run (the guards stand before the quantifiers so that the inputs
\* are enumerated only where the step can be taken)
Invoke ==
    /\ pc = "idle"
    /\ runs < MaxRuns
    /\ \E cmd \in CommandNames, arg \in ArgTexts, cfgOk \in BOOLEAN, initOk \in BOOLEAN :
          runCommand(cmd, arg, cfgOk, initOk)
    /\ UNCHANGED <<main, rendering, lookups>>

\* the upstream service answers, or the request fails
Respond ==
    /\ pc = "http"
    /\ \E o \in HttpOutcomes : HttpResponse(o)
    /\ UNCHANGED <<main, rendering, lookups>>

\* the caller of runCommand goes on
Resume ==
    /\ Return
    /\ UNCHANGED <<main, rendering, lookups>>

Next == Invoke \/ Respond \/ Resume

Spec == Init /\ [][Next]_vars

---------------------------------------------------------------------------
(* The formatter on a range of payloads: an operation's success result for *)
(* a response body and a format                                            *)

Scalars ==
    {JNull, JBool(FALSE), JBool(TRUE), JNum(0), JNum(42), JNum(-7),
     JStr(""), JStr("unresolved"), JStr("say \"hi\"\\\n")}

Leaves == Scalars \cup {JArr(<<>>), JObj(<<>>, <<>>)}

MemberKeys == {"id", "status", "a\"b"}

MemberValues == {JNull, JNum(0), JStr("123"), JArr(<<>>)}

\* the sequences of 1 to n elements of S
SeqsUpTo(S, n) == UNION {[1..m -> S] : m \in 1..n}

\* the sequences of distinct elements among those of Q
Distinct(Q) == {q \in Q : \A i, j \in DOMAIN q : i # j => q[i] # q[j]}

NestedPayloads ==
    { JArr(<<IssueBody, JObj(<<"status", "id">>, <<JStr("resolved"), JStr("124")>>)>>),
      JObj(<<"issue", "tags">>, <<IssueBody, JArr(<<JStr("browser"), JArr(<<JNum(1)>>)>>)>>) }

\* what JSON.parse can have produced: no undefined inside a value
SerializablePayloads ==
    Leaves
    \cup {JArr(items) : items \in SeqsUpTo(Leaves, MaxItems)}
    \cup UNION {{JObj(keys, vals) : vals \in [DOMAIN keys -> MemberValues]} :
                    keys \in Distinct(SeqsUpTo(MemberKeys, MaxItems))}
    \cup NestedPayloads

\* the response bodies: the above, and no body at all
Payloads == SerializablePayloads \cup {JUndefined}

Formats == {Str("json"), Str("toon"), Str("xml")}

\* the call of getIssue whose result is rendered
FormatterCall(f) ==
    OperationCall("get-issue", [k \in {"issueId"} |-> Str("123")], Str("default"), f)

FormatInit ==
    /\ NoInvocation
    /\ main = NoMain
    /\ lookups = <<>>
    /\ rendering \in {[data |-> d, format |-> f, done |-> FALSE, out |-> NoResult,
                        encodeCalls |-> <<>>] : d \in Payloads, f \in Formats}

\* the return statement of an operation whose request resolved with
\* rendering.data: {success, data, result: formatResult(data, format)}
Render ==
    /\ rendering # NoRendering
    /\ ~rendering.done
    /\ rendering' =
          [rendering EXCEPT
              !.done = TRUE,
              !.out = SuccessResult(FormatterCall(rendering.format),
                                    ProfileOptions("default"), rendering.data),
              !.encodeCalls = EncodeCalls(rendering.data, rendering.format)]
    /\ UNCHANGED <<sessions, pc, runs, command, config, args, profile, format, sentryUtil,
                   nextHandle, opCalls, requests, result, stdout, stderr, exitCode,
                   outcome, events, main, lookups>>

FormatNext == Render

FormatSpec == FormatInit /\ [][FormatNext]_vars

---------------------------------------------------------------------------
(* One SentryUtil under a sequence of getClient and clearClients calls *)

\* the profile names asked for: two the configuration has, one it lacks
LookupNames == {Str("default"), Str("staging"), Str("ghost")}

NoClient == 0

\* an entry of `lookups`: a getClient call with what it returned (client is
\* NoClient when it threw), or a clearClients call
Lookup(op, name, ok, client, created) ==
    [op |-> op, name |-> name, ok |-> ok, client |-> client, created |-> created]

PoolInit ==
    /\ NoInvocation
    /\ main = NoMain
    /\ rendering = NoRendering
    /\ lookups = <<>>

\* new SentryUtil(config), once
Construct ==
    /\ sentryUtil = NoUtil
    /\ sentryUtil' = NewSentryUtil(loadConfig)
    /\ UNCHANGED <<sessions, pc, runs, command, config, args, profile, format, nextHandle,
                   opCalls, requests, result, stdout, stderr, exitCode, outcome,
                   events, main, rendering, lookups>>

\* sentryUtil.getClient(name)
GetClient(name) ==
    LET got == getClient(sentryUtil, name, nextHandle)
    IN  /\ sentryUtil' = [sentryUtil EXCEPT !.clientPool = got.clientPool]
        /\ nextHandle' = IF got.created THEN nextHandle + 1 ELSE nextHandle
        /\ lookups' = Append(lookups,
                             Lookup("getClient", name, got.ok,
                                    IF got.ok THEN got.client ELSE NoClient, got.created))
        /\ UNCHANGED <<sessions, pc, runs, command, config, args, profile, format, opCalls,
                       requests, result, stdout, stderr, exitCode, outcome, events,
                       main, rendering>>

\* sentryUtil.clearClients()
ClearClients ==
    /\ sentryUtil' = ClearPool(sentryUtil)
    /\ lookups' = Append(lookups, Lookup("clearClients", NoValue, TRUE, NoClient, FALSE))
    /\ UNCHANGED <<sessions, pc, runs, command, config, args, profile, format, nextHandle,
                   opCalls, requests, result, stdout, stderr, exitCode, outcome,
                   events, main, rendering>>

Lookups ==
    /\ sentryUtil # NoUtil
    /\ Len(lookups) < MaxCalls
    /\ \E name \in LookupNames : GetClient(name)

Clears ==
    /\ sentryUtil # NoUtil
    /\ Len(lookups) < MaxCalls
    /\ ClearClients

PoolNext == Construct \/ Lookups \/ Clears

PoolSpec == PoolInit /\ [][PoolNext]_vars

---------------------------------------------------------------------------
(* The process from main() on: parseArguments, then a return, a headless   *)
(* runCommand or interactive mode                                          *)

\* a token of process.argv.slice(2): a bare word, or an argument text as
\* runCommand takes it
Word(w) == [kind |-> "word", bag |-> EmptyBag, word |-> w]

ArgText(kind, bag) == [kind |-> kind, bag |-> bag, word |-> ""]

Flags == {"--help", "-h", "--version", "-v", "--commands"}

\* the `arg` runCommand is given for the tokens after the command name: null
\* when there is none; a bare word is not JSON
ArgOf(argv) ==
    IF Len(argv) < 2 THEN [kind |-> "null", bag |-> EmptyBag]
    ELSE IF argv[2].kind = "word" THEN [kind |-> "invalid", bag |-> EmptyBag]
    ELSE [kind |-> argv[2].kind, bag |-> argv[2].bag]

\* parseArguments(args): what it does before it returns or the process ends.
\* A flag prints and exits 0, and so does `<name> -h` for any name; a
\* command name runs runCommand; anything else, no token included, returns
\* false
parseArguments(argv) ==
    IF argv = <<>> THEN [kind |-> "value", value |-> FALSE]
    ELSE IF argv[1].kind = "word" /\ argv[1].word \in Flags
    THEN [kind |-> "exit", printed |-> argv[1].word]
    ELSE IF Len(argv) >= 2 /\ argv[2] = Word("-h")
    THEN [kind |-> "exit", printed |-> "-h"]
    ELSE IF argv[1].kind = "word" /\ argv[1].word \in Range(COMMANDS)
    THEN [kind |-> "run", command |-> argv[1].word, arg |-> ArgOf(argv)]
    ELSE [kind |-> "value", value |-> FALSE]

MainArgTexts ==
    { ArgText("json", [k \in {"issueId"} |-> Str("123")]),
      ArgText("json", [k \in {"projectSlug", "eventId"} |->
                          IF k = "projectSlug" THEN Str("my-project") ELSE Str("abc123")]),
      ArgText("invalid", EmptyBag) }

\* the argument lists explored
Argvs ==
    {<<>>, <<Word("some"), Word("random"), Word("args")>>}
    \cup {<<Word(w)>> : w \in Flags \cup CommandNames \cup {"some"}}
    \cup {<<Word(w), Word("-h")>> : w \in {"test-connection", "invalid-command"}}
    \cup {<<Word(c), t>> : c \in Range(COMMANDS), t \in MainArgTexts}

\* main at its entry
MainEntry(argv) ==
    [ pc |-> "start", argv |-> argv, parseReturned |-> FALSE, shouldContinue |-> FALSE,
      calls |-> <<>>, stdout |-> <<>>, stderr |-> <<>>, exitCode |-> NoExit ]

\* as AfterParse, with the test of shouldContinue negated
AfterParseNegated(m, value) ==
    IF ~value
    THEN [m EXCEPT !.parseReturned = TRUE, !.shouldContinue = value, !.pc = "returned"]
    ELSE [m EXCEPT !.parseReturned = TRUE, !.shouldContinue = value,
                   !.calls = <<"new wrapper", "connect">>, !.pc = "connecting"]

\* main from the value of parseArguments to its return or to the await of
\* cli.connect()
AfterParse(m, value) ==
    IF value
    THEN [m EXCEPT !.parseReturned = TRUE, !.shouldContinue = value, !.pc = "returned"]
    ELSE [m EXCEPT !.parseReturned = TRUE, !.shouldContinue = value,
                   !.calls = <<"new wrapper", "connect">>, !.pc = "connecting"]

\* main().catch: console.error('Fatal error:', error); process.exit(1)
Fatal(m) == [m EXCEPT !.stderr = Append(@, "Fatal error:"), !.exitCode = 1, !.pc = "exited"]

\* process.exit(code) inside parseArguments or runCommand
Exited(m, printed, code) ==
    [m EXCEPT !.stdout = @ \o printed, !.exitCode = code, !.pc = "exited"]

MainInit ==
    /\ NoInvocation
    /\ rendering = NoRendering
    /\ lookups = <<>>
    /\ main \in {MainEntry(argv) : argv \in Argvs}

\* main() up to its first suspension: parseArguments prints and exits,
\* returns, or starts runCommand
Main ==
    /\ main # NoMain
    /\ main.pc = "start"
    /\ LET r == parseArguments(main.argv)
       IN  CASE r.kind = "exit" ->
                    /\ main' = Exited(main, <<r.printed>>, 0)
                    /\ UNCHANGED <<sessions, pc, runs, command, config, args, profile, format,
                                   sentryUtil, nextHandle, opCalls, requests, result,
                                   stdout, stderr, exitCode, outcome, events>>
             [] r.kind = "value" ->
                    /\ main' = AfterParse(main, r.value)
                    /\ UNCHANGED <<sessions, pc, runs, command, config, args, profile, format,
                                   sentryUtil, nextHandle, opCalls, requests, result,
                                   stdout, stderr, exitCode, outcome, events>>
             [] r.kind = "run" ->
                    /\ main' = [main EXCEPT !.pc = "headless"]
                    /\ \E cfgOk \in BOOLEAN, initOk \in BOOLEAN :
                          runCommand(r.command, r.arg, cfgOk, initOk)
    /\ UNCHANGED <<rendering, lookups>>

\* the headless runCommand has ended: the process is gone, or parseArguments
\* returns true and main goes on
HeadlessEnd ==
    /\ main # NoMain
    /\ main.pc = "headless"
    /\ pc \in {"returned", "exited"}
    /\ main' = IF pc = "exited" THEN Exited(main, <<>>, exitCode)
               ELSE AfterParse(main, TRUE)
    /\ UNCHANGED <<sessions, pc, runs, command, config, args, profile, format, sentryUtil,
                   nextHandle, opCalls, requests, result, stdout, stderr, exitCode,
                   outcome, events, rendering, lookups>>

\* cli.connect() settles: main calls cli.start(), or the rejection reaches
\* main().catch
Connected ==
    /\ main # NoMain
    /\ main.pc = "connecting"
    /\ \E ok \in BOOLEAN :
          main' = IF ok THEN [main EXCEPT !.calls = Append(@, "start"), !.pc = "interactive"]
                  ELSE Fatal(main)
    /\ UNCHANGED <<sessions, pc, runs, command, config, args, profile, format, sentryUtil,
                   nextHandle, opCalls, requests, result, stdout, stderr, exitCode,
                   outcome, events, rendering, lookups>>

\* cli.start() settles: main returns, or the rejection reaches main().catch
Started ==
    /\ main # NoMain
    /\ main.pc = "interactive"
    /\ \E ok \in BOOLEAN :
          main' = IF ok THEN [main EXCEPT !.pc = "returned"] ELSE Fatal(main)
    /\ UNCHANGED <<sessions, pc, runs, command, config, args, profile, format, sentryUtil,
                   nextHandle, opCalls, requests, result, stdout, stderr, exitCode,
                   outcome, events, rendering, lookups>>

MainNext == Main \/ Respond \/ HeadlessEnd \/ Connected \/ Started

MainSpec == MainInit /\ [][MainNext]_vars

---------------------------------------------------------------------------
(* Properties *)

Finished == pc \in {"returned", "exited"}

\* the switch was reached: configuration loaded and arguments parsed
AtSwitch == args # NoArgs

\* the documented required fields of cmd that bag a does not hold
Lacking(cmd, a) == {f \in DocumentedRequired(cmd) : f \notin DOMAIN a}

\* C1: when the switch of runCommand is reached with a command that has
\* required fields and an argument bag lacking one of them, the invocation
\* ends with exit status 1, one error line on standard error that names every
\* missing field, no API operation invoked and no HTTP request issued.
C1_MissingRequiredRejected ==
    (AtSwitch /\ command \in Range(COMMANDS) /\ Lacking(command, args) # {}) =>
        /\ pc = "exited"
        /\ exitCode # NoExit /\ exitCode # 0
        /\ Len(stderr) = 1
        /\ \A f \in Lacking(command, args) : f \in Range(stderr[1])
        /\ stdout = <<>>
        /\ opCalls = <<>>
        /\ requests = <<>>

\* get-event with projectSlug given and eventId missing was rejected
C1_Witness ==
    /\ command = "get-event"
    /\ AtSwitch
    /\ Truthy(Get(args, "projectSlug"))
    /\ "eventId" \notin DOMAIN args
    /\ pc = "exited"
    /\ stderr # <<>>

\* the keys of the query parameters and of the body of a request
SentKeys(r) ==
    (IF r.params = NoParams THEN {} ELSE DOMAIN r.params)
    \cup (IF r.data = NoData THEN {} ELSE DOMAIN r.data)

\* the bag without the six command-line-only keys
WithoutCliKeys(a) ==
    [k \in DOMAIN a \ {"profile", "format", "projectSlug", "issueId", "eventId", "tagKey"}
        |-> a[k]]

\* the commands whose operation takes query parameters from the bag
ForwardsQuery ==
    {"list-project-events", "list-project-issues", "list-org-issues", "list-issue-events",
     "get-tag-details", "list-tag-values", "debug-source-maps"}

\* C2: no request carries one of the keys profile, format, projectSlug,
\* issueId, eventId, tagKey in its query parameters or body; the commands
\* that forward parameters forward every other key of the bag unchanged
\* (as query parameters; update-issue as the body).
C2_DenylistNeverForwarded ==
    \A i \in DOMAIN requests :
        /\ SentKeys(requests[i])
              \cap {"profile", "format", "projectSlug", "issueId", "eventId", "tagKey"} = {}
        /\ command \in ForwardsQuery => requests[i].params = WithoutCliKeys(args)
        /\ command = "update-issue" => requests[i].data = WithoutCliKeys(args)

\* a request went out for a bag holding denylisted keys and an API key
C2_Witness ==
    /\ command = "list-tag-values"
    /\ requests # <<>>
    /\ {"issueId", "tagKey", "cursor"} \subseteq DOMAIN args
    /\ requests[1].params = [k \in {"cursor"} |-> Str("c1")]

\* C3 (as claimed): an invocation that reached an API operation has executed
\* clearClients and holds no client handle when it returns or terminates the
\* process, whether the operation result is a success or a failure.
C3_CacheClearedAtEnd ==
    (Finished /\ opCalls # <<>>) =>
        /\ "clearClients" \in Range(events)
        /\ StoredHandles(sentryUtil) = {}


\* C4: an invocation whose operation result has success=true prints exactly
\* the rendered result to standard output, nothing to standard error, and
\* does not terminate the process; every other finished invocation
\* (validation failure, unknown command, result with success=false, thrown
\* exception) prints one message to standard error, nothing to standard
\* output, and exits with a non-zero status.
C4_OutcomeFollowsResult ==
    Finished =>
        IF result # NoResult /\ result.success
        THEN /\ stdout = <<result.result.text>>
             /\ stderr = <<>>
             /\ exitCode = NoExit
             /\ pc = "returned"
        ELSE /\ Len(stderr) = 1
             /\ stdout = <<>>
             /\ exitCode # NoExit /\ exitCode # 0
             /\ pc = "exited"

\* an invocation ended on a result with success=false
C4_Witness ==
    /\ Finished
    /\ result # NoResult
    /\ ~result.success
    /\ requests # <<>>
    /\ stderr = <<result.error>>

\* C5: when the switch is reached with a command name that is not one of the
\* 13 names, runCommand prints "Unknown command: <name>" with the name given,
\* exits non-zero, and has invoked no API operation, built no SentryUtil or
\* client handle and issued no HTTP request.
C5_UnknownCommandRejected ==
    (AtSwitch /\ command \notin Range(COMMANDS)) =>
        /\ pc = "exited"
        /\ stderr = << <<"Unknown command: ", command>> >>
        /\ stdout = <<>>
        /\ exitCode # NoExit /\ exitCode # 0
        /\ opCalls = <<>>
        /\ requests = <<>>
        /\ sentryUtil = NoUtil
        /\ StoredHandles(sentryUtil) = {}
        /\ events = <<"console.error", "process.exit">>

\* an unrecognized name was given with a bag that would satisfy a command
C5_Witness ==
    /\ command = "delete-issue"
    /\ AtSwitch
    /\ Truthy(Get(args, "issueId"))
    /\ pc = "exited"

\* the operation that carries the name of a command
OperationNamed(cmd) ==
    CASE cmd = "list-project-events" -> "listProjectEvents"
      [] cmd = "list-project-issues" -> "listProjectIssues"
      [] cmd = "list-org-issues"     -> "listOrgIssues"
      [] cmd = "get-issue"           -> "getIssue"
      [] cmd = "update-issue"        -> "updateIssue"
      [] cmd = "list-issue-events"   -> "listIssueEvents"
      [] cmd = "get-event"           -> "getEvent"
      [] cmd = "get-issue-event"     -> "getIssueEvent"
      [] cmd = "get-tag-details"     -> "getTagDetails"
      [] cmd = "list-tag-values"     -> "listTagValues"
      [] cmd = "list-issue-hashes"   -> "listIssueHashes"
      [] cmd = "debug-source-maps"   -> "debugSourceMaps"
      [] cmd = "test-connection"     -> "testConnection"

\* every documented required field of cmd is given with a truthy value
RequiredGiven(cmd, a) == \A f \in DocumentedRequired(cmd) : Truthy(Get(a, f))

\* C6: the names the dispatcher recognizes are exactly the 13 names of
\* COMMANDS (any other name is reported as unknown), and for each of them,
\* with its required fields given, the dispatcher invokes exactly one API
\* operation, the one of the same name, exactly once.
C6_DispatchOneOperation ==
    /\ Len(COMMANDS) = 13
    /\ Cardinality(Range(COMMANDS)) = 13
    /\ AtSwitch =>
          /\ command \in Range(COMMANDS) <=> stderr # << <<"Unknown command: ", command>> >>
          /\ (command \in Range(COMMANDS) /\ RequiredGiven(command, args)) =>
                /\ Len(opCalls) = 1
                /\ opCalls[1].op = OperationNamed(command)
          /\ Len(opCalls) <= 1

\* test-connection, the last case of the switch, invoked its operation
C6_Witness ==
    /\ command = "test-connection"
    /\ AtSwitch
    /\ Len(opCalls) = 1
    /\ opCalls[1].op = "testConnection"
    /\ requests # <<>>


\* the HTTP method of the specification's operation table
TableMethod(cmd) == IF cmd = "update-issue" THEN "PUT" ELSE "GET"

\* the path pattern of the specification's operation table, with {org},
\* {projectSlug}, {issueId}, {eventId}, {tagKey} filled in
TablePath(cmd, org, projectSlug, issueId, eventId, tagKey) ==
    CASE cmd = "list-project-events" -> <<"/projects/", org, "/", projectSlug, "/events/">>
      [] cmd = "list-project-issues" -> <<"/projects/", org, "/", projectSlug, "/issues/">>
      [] cmd = "list-org-issues"     -> <<"/organizations/", org, "/issues/">>
      [] cmd = "get-issue"           -> <<"/organizations/", org, "/issues/", issueId, "/">>
      [] cmd = "update-issue"        -> <<"/organizations/", org, "/issues/", issueId, "/">>
      [] cmd = "list-issue-events"   ->
            <<"/organizations/", org, "/issues/", issueId, "/events/">>
      [] cmd = "get-event"           ->
            <<"/projects/", org, "/", projectSlug, "/events/", eventId, "/">>
      [] cmd = "get-issue-event"     ->
            <<"/organizations/", org, "/issues/", issueId, "/events/", eventId, "/">>
      [] cmd = "get-tag-details"     ->
            <<"/organizations/", org, "/issues/", issueId, "/tags/", tagKey, "/">>
      [] cmd = "list-tag-values"     ->
            <<"/organizations/", org, "/issues/", issueId, "/tags/", tagKey, "/values/">>
      [] cmd = "list-issue-hashes"   ->
            <<"/organizations/", org, "/issues/", issueId, "/hashes/">>
      [] cmd = "debug-source-maps"   ->
            <<"/projects/", org, "/", projectSlug, "/events/", eventId, "/source-map-debug/">>
      [] cmd = "test-connection"     -> <<"/organizations/", org, "/issues/">>

\* the organization of the profile the invocation resolved
ResolvedOrganization == config.profiles[ToStr(profile)].organization

\* C7: the request of each of the 13 operations uses the method and the path
\* pattern of the operation table, {org} being the organization of the
\* resolved profile and the identifiers the arguments of the same name
\* (test-connection with the query limit=1); update-issue alone issues a PUT,
\* every other operation a GET.
C7_RequestMatchesTable ==
    \A i \in DOMAIN requests :
        /\ requests[i].method = TableMethod(command)
        /\ requests[i].method = "PUT" <=> command = "update-issue"
        /\ requests[i].method \in {"GET", "PUT"}
        /\ requests[i].url =
              TablePath(command, ResolvedOrganization,
                        ToStr(Get(args, "projectSlug")), ToStr(Get(args, "issueId")),
                        ToStr(Get(args, "eventId")), ToStr(Get(args, "tagKey")))
        /\ command = "test-connection" => requests[i].params = [k \in {"limit"} |-> Num(1)]

\* update-issue issued its PUT for the organization of a non-default profile
C7_Witness ==
    /\ command = "update-issue"
    /\ requests # <<>>
    /\ requests[1].method = "PUT"
    /\ profile = Str("staging")
    /\ requests[1].url = <<"/organizations/", "globex", "/issues/", "123", "/">>

\* the error text the claim's priority order gives for a thrown value
PriorityMessage(error) ==
    IF error.kind = "axios" /\ Truthy(error.detail) THEN <<ToStr(error.detail)>>
    ELSE IF error.kind \in {"axios", "error"} THEN error.message
    ELSE <<ToStr(error.value)>>

\* C8: every failure inside an API operation (a rejected request, an
\* unresolvable profile, any other thrown value) is returned as a result with
\* success=false whose error is "ERROR: " followed by the server's detail
\* when the response body gives one (an empty detail counts as none),
\* otherwise the transport library's message, otherwise the exception's
\* message or stringified value; it is not rethrown: the dispatcher prints
\* that error itself and its catch block does not run.
C8_FailureBecomesResult ==
    (outcome # NoOutcome /\ ~outcome.ok) =>
        /\ result = [success |-> FALSE,
                     error |-> <<"ERROR: ">> \o PriorityMessage(outcome.error)]
        /\ stderr = <<result.error>>
        /\ stderr[1][1] # "Error executing command:"
        /\ "clearClients" \notin Range(events)

\* a 404 with a detail became a failure result carrying the detail
C8_Witness ==
    /\ command = "get-issue"
    /\ outcome # NoOutcome
    /\ ~outcome.ok
    /\ outcome.error.kind = "axios"
    /\ outcome.error.detail = Str("Issue not found")
    /\ result = [success |-> FALSE, error |-> <<"ERROR: ", "Issue not found">>]

\* the profile of the invocation resolves to connection options
ProfileResolves == AtSwitch /\ ToStr(profile) \in DOMAIN config.profiles

\* C9: an invoked operation that obtains a client handle issues exactly one
\* HTTP request, also after that request has failed (no retry); an
\* invocation issues at most one request and none without an operation.
C9_ExactlyOneRequest ==
    /\ Len(requests) <= 1
    /\ opCalls = <<>> => requests = <<>>
    /\ pc = "http" => Len(requests) = 1
    /\ (outcome # NoOutcome /\ ProfileResolves) => Len(requests) = 1
    /\ (outcome # NoOutcome /\ ~ProfileResolves) => requests = <<>>

\* a request failed and the invocation ended with that one request
C9_Witness ==
    /\ Finished
    /\ outcome # NoOutcome
    /\ ~outcome.ok
    /\ Len(requests) = 1

\* C10: when the PUT of update-issue succeeds the result string is the fixed
\* confirmation holding the issue id and "updated successfully", whatever the
\* response body and the requested format; the body sent is the argument bag
\* without the denylisted keys.
C10_UpdateIssueConfirmation ==
    (command = "update-issue" /\ outcome # NoOutcome /\ outcome.ok) =>
        /\ result.success
        /\ result.result.defined
        /\ result.result.text =
              <<"[U+2705] Issue ", ToStr(Get(args, "issueId")), " updated successfully!">>
        /\ result.data = outcome.body
        /\ Len(requests) = 1
        /\ requests[1].method = "PUT"
        /\ requests[1].data = WithoutCliKeys(args)
        /\ requests[1].params = NoParams

\* update-issue succeeded with format toon and a body unlike the confirmation
C10_Witness ==
    /\ command = "update-issue"
    /\ outcome # NoOutcome
    /\ outcome.ok
    /\ outcome.body = IssueBody
    /\ format = Str("toon")
    /\ "status" \in DOMAIN args
    /\ stdout = << <<"[U+2705] Issue ", "123", " updated successfully!">> >>

\* C11: every result an operation returns is populated for one branch only:
\* with success=true the rendered result is a defined string and there is no
\* error; with success=false the error is a defined string and there is
\* neither a rendered result nor data; for every response body, an empty or
\* absent one included, and every format.
C11_ResultOneBranch ==
    result # NoResult =>
        IF result.success
        THEN /\ DOMAIN result = {"success", "data", "result"}
             /\ result.result.defined
        ELSE /\ DOMAIN result = {"success", "error"}
             /\ result.error # <<>>

\* the operation was invoked and the wrapper's initSentry threw
InitFailureReported ==
    /\ stderr # <<>>
    /\ Len(stderr[1]) >= 2
    /\ stderr[1][2] = "Failed to initialize Sentry client: "

\* an invocation reached an operation with a profile the configuration lacks
UnresolvedProfileUsed ==
    /\ Finished
    /\ AtSwitch
    /\ opCalls # <<>>
    /\ ~ProfileResolves
    /\ ~InitFailureReported

\* C12 as stated: a profile that is not in the configuration surfaces as a
\* thrown condition that reaches the catch block of runCommand, is reported
\* as "Error executing command: ..." and the process exits non-zero.
C12_ProfileNotFoundIsFatal ==
    UnresolvedProfileUsed =>
        /\ stderr # <<>>
        /\ stderr[1][1] = "Error executing command:"
        /\ exitCode = 1

\* C12: a profile that is not in the configuration makes getClient throw
\* inside the operation's try block: the operation returns success=false
\* with "ERROR: " and the message of the thrown error, no request is issued,
\* the dispatcher prints that error (not "Error executing command:") and
\* exits non-zero; the catch block of runCommand does not run.
C12_ProfileNotFoundIsResult ==
    UnresolvedProfileUsed =>
        /\ outcome # NoOutcome
        /\ ~outcome.ok
        /\ result = [success |-> FALSE, error |-> <<"ERROR: ">> \o outcome.error.message]
        /\ requests = <<>>
        /\ stdout = <<>>
        /\ stderr = <<result.error>>
        /\ stderr[1][1] # "Error executing command:"
        /\ events = <<"console.error", "process.exit">>
        /\ exitCode = 1
        /\ pc = "exited"

\* get-issue ran with the profile "ghost", which the configuration lacks
C12_Witness ==
    /\ command = "get-issue"
    /\ profile = Str("ghost")
    /\ UnresolvedProfileUsed
    /\ stderr = << <<"ERROR: ", "Profile \"", "ghost", "\" not found">> >>

\* the operation was invoked and no try block of a method settled: the
\* wrapper threw before the method ran
InitThrew == Finished /\ opCalls # <<>> /\ outcome = NoOutcome

\* the message of what was thrown outside every operation
ThrownMessage ==
    IF config = NoConfig THEN ConfigErrorMessage
    ELSE IF args = NoArgs THEN <<"Unexpected token o in JSON at position 1">>
    ELSE <<"Failed to initialize Sentry client: ">> \o ConfigErrorMessage

\* C13: what is thrown during dispatch and not turned into an operation
\* result (configuration unreadable, argument text not JSON, the Sentry
\* utility not constructible) is caught by runCommand: the message goes to
\* stderr, then the client cache is cleared, then the process exits
\* non-zero; nothing else is printed and nothing escapes.
C13_ThrownIsCaughtAndReported ==
    (Finished /\ (config = NoConfig \/ args = NoArgs \/ InitThrew)) =>
        /\ pc = "exited"
        /\ events = <<"console.error", "clearClients", "process.exit">>
        /\ stderr = << <<"Error executing command:">> \o ThrownMessage >>
        /\ stdout = <<>>
        /\ sentryUtil = NoUtil
        /\ exitCode = 1
        /\ requests = <<>>

\* the second command of a session was given an argument text that is not JSON
C13_Witness ==
    /\ runs = 2
    /\ command = "get-issue"
    /\ config # NoConfig
    /\ args = NoArgs
    /\ pc = "exited"
    /\ events = <<"console.error", "clearClients", "process.exit">>

\* a case of the switch rejected the argument bag
RequiredRejected == AtSwitch /\ command \in SwitchCases /\ ~RequiredGiven(command, args)

\* C14 as stated: the message of a missing required field is always
\* ERROR: "<field>" parameter is required, <field> being the missing field.
C14_SingleFieldMessage ==
    RequiredRejected =>
        \E f \in DocumentedRequired(command) :
            /\ ~Truthy(Get(args, f))
            /\ stderr = << <<"ERROR: \"", f, "\" parameter is required">> >>

\* C14: a command with one required field prints
\* ERROR: "<field>" parameter is required; a command with two required
\* fields prints ERROR: "<a>" and "<b>" parameters are required, naming both
\* fields whichever of them is missing.
C14_MessageNamesRequiredFields ==
    RequiredRejected =>
        \/ \E f \in DocumentedRequired(command) :
              /\ DocumentedRequired(command) = {f}
              /\ stderr = << <<"ERROR: \"", f, "\" parameter is required">> >>
        \/ \E a, b \in DocumentedRequired(command) :
              /\ a # b
              /\ DocumentedRequired(command) = {a, b}
              /\ stderr = << <<"ERROR: \"", a, "\" and \"", b,
                               "\" parameters are required">> >>

\* get-event was given its projectSlug but no eventId
C14_Witness ==
    /\ command = "get-event"
    /\ AtSwitch
    /\ Get(args, "projectSlug") = Str("my-project")
    /\ "eventId" \notin DOMAIN args
    /\ stderr = << <<"ERROR: \"", "projectSlug", "\" and \"", "eventId",
                     "\" parameters are required">> >>

\* C15: the format the dispatcher passes to an operation is "json" or "toon"
\* (operations without a format parameter aside): a format the argument bag
\* or the configuration gives that is neither is not passed on.
C15_FormatIsKnown ==
    \A i \in DOMAIN opCalls : opCalls[i].format \in {Str("json"), Str("toon"), NoValue}

\* formatResult was applied with format "toon"
RenderedToon == rendering # NoRendering /\ rendering.done /\ rendering.format = Str("toon")

\* formatResult was applied with a format other than "toon"
RenderedJson == rendering # NoRendering /\ rendering.done /\ rendering.format # Str("toon")

\* C16 as stated: formatResult(data, "toon") is the empty string, the
\* encoder not being called, exactly when data is null or undefined; for
\* every other payload it is the encoder's output.
C16_ToonEmptyForNullish ==
    RenderedToon =>
        IF rendering.data \in {JNull, JUndefined}
        THEN rendering.out.result = Text(<<"">>) /\ rendering.encodeCalls = <<>>
        ELSE /\ rendering.out.result = Text(<<encode(rendering.data)>>)
             /\ rendering.encodeCalls = <<rendering.data>>

\* C16: formatResult(data, "toon") is the empty string, the encoder not
\* being called, exactly when data is falsy (null, undefined, the empty
\* string, 0, false); for every other payload, an empty array or object
\* included, the encoder is called once with data and its output returned.
C16_ToonEmptyForFalsy ==
    RenderedToon =>
        IF rendering.data \in {JNull, JUndefined, JStr(""), JNum(0), JBool(FALSE)}
        THEN rendering.out.result = Text(<<"">>) /\ rendering.encodeCalls = <<>>
        ELSE /\ rendering.out.result = Text(<<encode(rendering.data)>>)
             /\ rendering.encodeCalls = <<rendering.data>>

\* the payload 0 was rendered with format "toon" as the empty string
C16_Witness ==
    /\ RenderedToon
    /\ rendering.data = JNum(0)
    /\ rendering.out.result = Text(<<"">>)
    /\ rendering.encodeCalls = <<>>

\* C17: formatResult(data, "json") is a string for every payload, and for
\* null and for undefined that string is the text null.
C17_JsonIsString ==
    RenderedJson =>
        /\ rendering.out.result.defined
        /\ rendering.data \in {JNull, JUndefined} => rendering.out.result.text = <<"null">>

\* C18: for every JSON-serializable payload, JSON.parse of
\* formatResult(data, "json") is a value equal to data, members and items in
\* the same order; the result's data field is the payload as it was given.
C18_JsonRoundTrip ==
    (RenderedJson /\ rendering.data \in SerializablePayloads) =>
        /\ rendering.out.result.defined
        /\ Len(rendering.out.result.text) = 1
        /\ JsonParse(rendering.out.result.text[1]) = [ok |-> TRUE, value |-> rendering.data]
        /\ rendering.out.data = rendering.data

\* an object of two members, a key with a quote in it first, was rendered as
\* JSON and parses back to itself
C18_Witness ==
    /\ RenderedJson
    /\ rendering.data = JObj(<<"a\"b", "id">>, <<JArr(<<>>), JStr("123")>>)
    /\ rendering.out.result.text =
          <<"{\n  \"a\\\"b\": [],\n  \"id\": \"123\"\n}">>
    /\ JsonParse(rendering.out.result.text[1]).value = rendering.data

\* no clearClients call lies between the calls i and j of `lookups`
NoClearBetween(i, j) == \A c \in (i + 1)..(j - 1) : lookups[c].op # "clearClients"

\* call i of `lookups` is a getClient that returned a client
Returned(i) == lookups[i].op = "getClient" /\ lookups[i].ok

\* the calls made since the last clearClients
SinceLastClear == {i \in DOMAIN lookups : NoClearBetween(i, Len(lookups) + 1)}

\* C20: on one SentryUtil, two getClient calls for the same profile name with
\* no clearClients between them return the same instance, built once; the
\* first getClient for a name after a clearClients builds an instance that is
\* none of those returned before; the pool holds one handle for each name
\* looked up with success since the last clearClients, and no other.
C20_PoolReusesUntilCleared ==
    /\ \A i, j \in DOMAIN lookups :
          (i < j /\ Returned(i) /\ Returned(j) /\ lookups[i].name = lookups[j].name
             /\ NoClearBetween(i, j)) =>
                /\ lookups[j].client = lookups[i].client
                /\ ~lookups[j].created
    /\ \A i, j \in DOMAIN lookups :
          (i < j /\ Returned(i) /\ Returned(j) /\ ~NoClearBetween(i, j)) =>
                lookups[j].client # lookups[i].client
    /\ \A j \in DOMAIN lookups :
          (Returned(j) /\ \A i \in 1..(j - 1) :
                (Returned(i) /\ lookups[i].name = lookups[j].name) => ~NoClearBetween(i, j))
             => lookups[j].created
    /\ sentryUtil # NoUtil =>
          /\ DOMAIN sentryUtil.clientPool =
                {lookups[i].name : i \in {k \in SinceLastClear : Returned(k)}}
          /\ \A i \in SinceLastClear :
                Returned(i) => sentryUtil.clientPool[lookups[i].name] = lookups[i].client

\* a name was looked up twice, the pool cleared, and the name looked up again
C20_Witness ==
    /\ Len(lookups) = 4
    /\ Returned(1) /\ Returned(2) /\ Returned(4)
    /\ lookups[3].op = "clearClients"
    /\ lookups[1].name = Str("staging")
    /\ lookups[2].name = Str("staging")
    /\ lookups[4].name = Str("staging")
    /\ lookups[2].client = lookups[1].client
    /\ lookups[4].client # lookups[1].client
    /\ lookups[4].created

\* the first token is neither a command name nor a flag
FirstUnrecognized(argv) ==
    /\ argv # <<>>
    /\ argv[1].kind = "word"
    /\ argv[1].word \notin Range(COMMANDS) \cup Flags

\* main has started interactive mode: the wrapper built and connect called,
\* start called once connect has settled
InteractiveStarted ==
    /\ main.parseReturned
    /\ ~main.shouldContinue
    /\ \/ main.calls = <<"new wrapper", "connect">> /\ main.pc \in {"connecting", "exited"}
       \/ /\ main.calls = <<"new wrapper", "connect", "start">>
          /\ main.pc \in {"interactive", "returned", "exited"}

\* C19 as stated: with no argument, or with a first token that is neither a
\* command name nor a flag, parseArguments returns false and main starts
\* interactive mode; when parseArguments returns true main returns without
\* starting it.
C19_UnrecognizedStartsInteractive ==
    (main # NoMain /\ main.pc # "start") =>
        /\ (main.argv = <<>> \/ FirstUnrecognized(main.argv)) => InteractiveStarted
        /\ (main.parseReturned /\ main.shouldContinue) =>
              main.calls = <<>> /\ main.pc = "returned"

\* C19: with no argument, or with a first token that is neither a command
\* name nor a flag and no -h after it, parseArguments returns false and main
\* starts interactive mode (the wrapper is built, connect called, and start
\* once connect has settled); an unrecognized name followed by -h prints
\* help and exits 0; when parseArguments returns true main returns without
\* starting interactive mode, and interactive mode starts in no other case.
C19_ModeFollowsParseArguments ==
    (main # NoMain /\ main.pc # "start") =>
        /\ (main.argv = <<>>
              \/ (FirstUnrecognized(main.argv)
                    /\ ~(Len(main.argv) >= 2 /\ main.argv[2] = Word("-h"))))
             => InteractiveStarted
        /\ (FirstUnrecognized(main.argv) /\ Len(main.argv) >= 2 /\ main.argv[2] = Word("-h"))
             => main.pc = "exited" /\ main.exitCode = 0 /\ main.calls = <<>>
        /\ (main.parseReturned /\ main.shouldContinue) =>
              main.calls = <<>> /\ main.pc = "returned"
        /\ main.calls # <<>> => main.parseReturned /\ ~main.shouldContinue

\* words that name no command: interactive mode was started, connect then start
C19_Witness ==
    /\ main # NoMain
    /\ main.argv = <<Word("some"), Word("random"), Word("args")>>
    /\ main.parseReturned
    /\ ~main.shouldContinue
    /\ main.pc = "interactive"
    /\ main.calls = <<"new wrapper", "connect", "start">>

\* C21: in one process no request of a command is issued on a client built
\* during an earlier command: whenever a runCommand invocation has returned
\* the module's sentryUtil is null and holds no handle, and a command that
\* issues a request does so on a SentryUtil built from the configuration
\* loaded anew, whose pool holds one handle, built by this command and
\* different from every handle used before, also for the same profile.
C21_NoHandleAcrossInvocations ==
    /\ pc \in {"idle", "returned"} => sentryUtil = NoUtil /\ StoredHandles(sentryUtil) = {}
    /\ \A i, j \in DOMAIN sessions : i < j => sessions[i].client # sessions[j].client
    /\ pc = "http" =>
          /\ Len(sessions) = runs
          /\ sessions[Len(sessions)].profile = profile
          /\ sentryUtil # NoUtil
          /\ sentryUtil.config = loadConfig
          /\ DOMAIN sentryUtil.clientPool = {profile}
          /\ sentryUtil.clientPool[profile] = sessions[Len(sessions)].client

\* two commands in a row used the profile "default", each on its own client
C21_Witness ==
    /\ runs = 2
    /\ pc = "http"
    /\ sessions = <<Session(Str("default"), 1), Session(Str("default"), 2)>>
    /\ StoredHandles(sentryUtil) = {2}

\* the required fields of cmd that bag a holds with a falsy value
FalsyGiven(cmd, a) == {f \in DocumentedRequired(cmd) \cap DOMAIN a : a[f] \in Falsy}

\* C22: the required-field check tests truthiness, not presence: for every
\* command with required fields, a bag that holds a required field with a
\* falsy value (the empty string, 0, false, null) is rejected as a bag
\* without the field is: the required-parameter message of the command on
\* stderr, exit status 1, no operation invoked and no request issued.
C22_FalsyRequiredRejected ==
    (AtSwitch /\ command \in SwitchCases /\ FalsyGiven(command, args) # {}) =>
        /\ stderr = <<RequiredMessage(command)>>
        /\ stderr[1][1] = "ERROR: \""
        /\ stdout = <<>>
        /\ exitCode = 1
        /\ pc = "exited"
        /\ opCalls = <<>>
        /\ requests = <<>>
        /\ result = NoResult

\* get-issue was given issueId 0 and nothing else is missing
C22_Witness ==
    /\ command = "get-issue"
    /\ AtSwitch
    /\ Get(args, "issueId") = Num(0)
    /\ Lacking(command, args) = {}
    /\ stderr = << <<"ERROR: \"", "issueId", "\" parameter is required">> >>
    /\ exitCode = 1
    /\ opCalls = <<>>

\* the invocation ended before its switch: loadConfig or JSON.parse threw
EndedBeforeSwitch == Finished /\ (config = NoConfig \/ args = NoArgs)

\* C23: the configuration is loaded and the argument text parsed before the
\* command name or a required field is looked at: when loadConfig throws or
\* the text is not JSON, the invocation ends, whatever the command name (one
\* that is not recognized, one with required fields), with the one line
\* "Error executing command: <message>" on stderr and exit status 1; neither
\* "Unknown command" nor a required-parameter message is printed and no
\* operation is invoked.
C23_LoadAndParseBeforeSwitch ==
    EndedBeforeSwitch =>
        /\ stderr = << <<"Error executing command:">> \o
                          (IF config = NoConfig THEN ConfigErrorMessage
                           ELSE <<"Unexpected token o in JSON at position 1">>) >>
        /\ \A i \in DOMAIN stderr : stderr[i][1] \notin {"Unknown command: ", "ERROR: \""}
        /\ stdout = <<>>
        /\ exitCode = 1
        /\ pc = "exited"
        /\ opCalls = <<>>
        /\ requests = <<>>

\* a name that is no command, with an argument text that is not JSON
C23_Witness ==
    /\ command = "delete-issue"
    /\ config # NoConfig
    /\ args = NoArgs
    /\ pc = "exited"
    /\ stderr = << <<"Error executing command:", "Unexpected token o in JSON at position 1">> >>

\* call i of `lookups` is a getClient that threw
Threw(i) == lookups[i].op = "getClient" /\ ~lookups[i].ok

\* the configuration has no profile of that name
Unresolvable(name) == ToStr(name) \notin DOMAIN loadConfig.profiles

\* the step is a getClient call that threw
FailedLookupStep ==
    /\ Len(lookups') = Len(lookups) + 1
    /\ lookups'[Len(lookups')].op = "getClient"
    /\ ~lookups'[Len(lookups')].ok

\* C24: getClient for a profile name whose options cannot be resolved throws
\* and leaves the pool as it was: no instance is built and none stored under
\* that name, the entries of other names stay and later lookups of them
\* return the same instances, and every later lookup of the failing name
\* resolves again and throws again.
C24_FailedLookupLeavesPool ==
    /\ [](\A i \in DOMAIN lookups :
            (lookups[i].op = "getClient" /\ Unresolvable(lookups[i].name)) =>
                Threw(i) /\ ~lookups[i].created /\ lookups[i].client = NoClient)
    /\ [](sentryUtil # NoUtil =>
            \A name \in DOMAIN sentryUtil.clientPool : ~Unresolvable(name))
    /\ [](\A i, k, j \in DOMAIN lookups :
            (i < k /\ k < j /\ Returned(i) /\ Threw(k) /\ Returned(j)
               /\ lookups[i].name = lookups[j].name /\ NoClearBetween(i, j)) =>
                  lookups[j].client = lookups[i].client /\ ~lookups[j].created)
    /\ [][FailedLookupStep => (sentryUtil' = sentryUtil /\ nextHandle' = nextHandle)]_vars

\* a lookup of "ghost" threw between two lookups of "staging" that returned
\* the same instance, and threw again afterwards
C24_Witness ==
    /\ Len(lookups) = 4
    /\ Returned(1) /\ Threw(2) /\ Returned(3) /\ Threw(4)
    /\ lookups[1].name = Str("staging")
    /\ lookups[2].name = Str("ghost")
    /\ lookups[3] = Lookup("getClient", Str("staging"), TRUE, lookups[1].client, FALSE)
    /\ lookups[4].name = Str("ghost")
    /\ DOMAIN sentryUtil.clientPool = {Str("staging")}
    /\ nextHandle = 2

====
